---------------------------- MODULE Spec2Model ----------------------------
(***************************************************************************)
(* Word/emotion frequency aggregation of hydrateTweet-crunch               *)
(* (processors/calc_words_frequency.py): main, process_lines,              *)
(* process_tweet, get_first_n_words and get_valid_users.                   *)
(*                                                                         *)
(* A Python dict is modelled with its insertion order: a sequence of       *)
(* <<key, value>> pairs.  A Python float quotient of two small integers is *)
(* modelled by the reduced fraction <<numerator, denominator>>.            *)
(***************************************************************************)
EXTENDS Integers, Sequences, FiniteSets, TLC

(***************************************************************************)
(* Bounds of the model.                                                    *)
(***************************************************************************)
\* records the dump yields at most in one run
MaxPosts == 2
\* tokens the texts of one dump hold at most, all records together
MaxTokens == 3
\* largest --n-words argument tried
MaxNWords == 2

None == "None"

(***************************************************************************)
(* The emotion lexicon (emotion_lexicon.py, not among the sources).        *)
(***************************************************************************)
\* Emotions enum members: ten relevant tags and one the processor discards.
Emotions == 0..10

EmotionNames ==
    <<"anger", "anticipation", "disgust", "fear", "joy", "negative",
      "positive", "sadness", "surprise", "trust", "any">>

getEmotionName(emotion) == EmotionNames[emotion + 1]

JOY == 4
POSITIVE == 6
TRUST == 9
ANY == 10

\* languages a lexicon exists for
SupportedLangs == {"en", "it"}
Langs == SupportedLangs \cup {"xx"}

initEmotionLexicon(l) == l \in SupportedLangs

Tokens == {"happy", "glad", "bank", "the"}

\* word -> set of emotion tags, per loaded language; empty: unknown word
getEmotionsOfWord(lex, word) ==
    CASE lex = "en" /\ word = "happy" -> {JOY, POSITIVE, TRUST}
      [] lex = "en" /\ word = "glad"  -> {JOY, ANY}
      [] lex = "en" /\ word = "bank"  -> {ANY}
      [] lex = "it" /\ word = "happy" -> {JOY}
      [] lex = "it" /\ word = "bank"  -> {TRUST, ANY}
      [] OTHER -> {}

\* the raw words a text is made of
RawWords == {"Happy!", "glad", "bank", "the"}

\* tokenize yields one normalised token per raw word of the text, in order
tokenize(raw) == IF raw = "Happy!" THEN "happy" ELSE raw

(***************************************************************************)
(* Python values.                                                          *)
(***************************************************************************)
RECURSIVE GCD(_, _)
GCD(a, b) == IF b = 0 THEN a ELSE GCD(b, a % b)

\* a / b on ints: the float quotient; <<0, 0>> stands for ZeroDivisionError
Ratio(a, b) ==
    IF b = 0 THEN <<0, 0>>
    ELSE <<a \div GCD(a, b), b \div GCD(a, b)>>

RECURSIVE Digits(_)
Digits(n) == IF n < 10 THEN <<n>> ELSE Append(Digits(n \div 10), n % 10)

\* str(n) of a non-negative int: its decimal digits
Str(n) == Digits(n)

\* dict helpers: d is a sequence of <<key, value>> in insertion order
Keys(d) == {d[i][1] : i \in 1..Len(d)}

Get(d, k) == d[CHOOSE i \in 1..Len(d) : d[i][1] = k][2]

\* words_dict[emotion][word] = 1 if absent, += 1 otherwise
CountWord(d, word) ==
    IF word \notin Keys(d)
    THEN Append(d, <<word, 1>>)
    ELSE [i \in 1..Len(d) |->
            IF d[i][1] = word THEN <<word, d[i][2] + 1>> ELSE d[i]]

RECURSIVE CountWordTimes(_, _, _)
\* CountWord once per emotion tag of the set that carries the emotion's name
CountWordTimes(d, word, n) ==
    IF n = 0 THEN d ELSE CountWordTimes(CountWord(d, word), word, n - 1)

RELEVANT_EMOTIONS ==
    <<"positive", "negative", "anger", "anticipation", "disgust", "fear",
      "joy", "sadness", "surprise", "trust">>

Relevant == {RELEVANT_EMOTIONS[i] : i \in 1..Len(RELEVANT_EMOTIONS)}

\* words_dict as main creates it
EmptyWordsDict == [emo |-> [e \in Relevant |-> <<>>], words |-> 0, tweets |-> 0]

\* stats['performance']['input'] as main creates it
EmptyStats == [words |-> 0, tweets |-> 0]

(***************************************************************************)
(* The program's state.                                                    *)
(***************************************************************************)
VARIABLES
    pc,           \* where the run is: "main", "process_lines", "tweet",
                  \* "loop", "write", "done", "exit", "crashed"
    args,         \* argparse.Namespace: n_words, users_file, dry_run
    users_fs,     \* the file at args.users_file: exists, form, records
    lexicon,      \* the language of the loaded lexicon (module global), or None
    tweet,        \* the record last taken from the dump: user_id, lang
    word,         \* the token last yielded by tokenize(full_text), or None
    lang,         \* process_lines' return value
    valid_users,  \* process_lines' local: get_valid_users' result
    words_dict,   \* per-emotion word counters and the totals
    stats,        \* stats['performance']['input']
    rows,         \* the rows get_first_n_words yielded to the csv writer
    files,        \* files main created under output_dir_path
    report,       \* the rendered stats report: <<>> before it is rendered
    nread,        \* history: records taken from the dump
    ncalls,       \* history: calls of process_tweet
    npassed,      \* history: records read whose author is allowed
    ntokens,      \* history: tokens tokenize yielded
    nmatched,     \* history: tokens read that the lexicon knows
    nevents,      \* history: (token read, relevant emotion of its set) pairs
    contrib,      \* history: per word, the increments of words_dict['words']
    lex_init,     \* history: initEmotionLexicon's result, None before the call
    run,          \* 1, or 2 in the second of two runs
    prev          \* the counters and rows the first of two runs ended with

vars == <<pc, args, users_fs, lexicon, tweet, word, lang, valid_users,
          words_dict, stats, rows, files, report, nread, ncalls, npassed,
          ntokens, nmatched, nevents, contrib, lex_init, run, prev>>

(***************************************************************************)
(* process_tweet                                                           *)
(***************************************************************************)
\* line 119 with the test inverted
FilteredInverted(tw, vu, a) == a.users_file # None /\ Str(tw.user_id) \in vu.ids

\* line 119: the record is skipped
Filtered(tw, vu, a) == a.users_file # None /\ Str(tw.user_id) \notin vu.ids

\* lines 130-136: the word counted under every relevant emotion of its set
CountEmotions(emo, w, emotions) ==
    [e \in DOMAIN emo |->
        CountWordTimes(emo[e], w,
            Cardinality({t \in emotions : getEmotionName(t) = e}))]

\* lines 127-128 moved into the loop of line 130: one increment per emotion
ProcessWordPerEmotion(lex, st, wd, w) ==
    LET emotions == getEmotionsOfWord(lex, w)
        n == Cardinality(emotions)
    IN  [stats |-> [st EXCEPT !.words = @ + n],
         words_dict |-> [wd EXCEPT !.words = @ + n,
                                   !.emo = CountEmotions(@, w, emotions)]]

\* lines 127-128 without the test of line 126: every token counted
ProcessWordUnchecked(lex, st, wd, w) ==
    LET emotions == getEmotionsOfWord(lex, w)
    IN  [stats |-> [st EXCEPT !.words = @ + 1],
         words_dict |-> [wd EXCEPT !.words = @ + 1,
                                   !.emo = CountEmotions(@, w, emotions)]]

\* lines 123-136: one token; lex is the lexicon initEmotionLexicon loaded
ProcessWord(lex, st, wd, w) ==
    LET emotions == getEmotionsOfWord(lex, w)
        hit == emotions # {}
    IN  [stats |-> [st EXCEPT !.words = IF hit THEN @ + 1 ELSE @],
         words_dict |-> [wd EXCEPT !.words = IF hit THEN @ + 1 ELSE @,
                                   !.emo = CountEmotions(@, w, emotions)]]

(***************************************************************************)
(* get_valid_users                                                         *)
(***************************************************************************)
\* a record of the users file without an id_str field
NoId == <<>>

\* fu.open_jsonobjects_file and the loop of lines 50-51 raise
JsonReadFails(fs) ==
    fs.form # "json" \/ \E i \in 1..Len(fs.records) : fs.records[i] = NoId

\* rows csv.DictReader yields: the first line is the header
CsvRows(fs) ==
    IF fs.form = "csv" THEN Len(fs.records)
    ELSE IF Len(fs.records) = 0 THEN 0 ELSE Len(fs.records) - 1

\* lines 55-58 raise: the file cannot be decoded, or {}.add on the first row
CsvReadFails(fs) == fs.form = "garbage" \/ CsvRows(fs) >= 1

get_valid_users(a, fs) ==
    IF fs.exists
    THEN IF ~JsonReadFails(fs)
         THEN [kind |-> "set",
               ids |-> {fs.records[i] : i \in 1..Len(fs.records)}]
         ELSE IF ~CsvReadFails(fs)
              THEN [kind |-> "dict", ids |-> {}]
              ELSE [kind |-> None, ids |-> {}]
    ELSE [kind |-> None, ids |-> {}]

\* Python truth value of get_valid_users' result
Truthy(vu) == vu.kind # None /\ vu.ids # {}

(***************************************************************************)
(* get_first_n_words                                                       *)
(***************************************************************************)
\* x put behind every item of s whose count is not lower
InsertDesc(s, x) ==
    LET k == Cardinality({i \in 1..Len(s) : s[i][2] >= x[2]})
    IN  SubSeq(s, 1, k) \o <<x>> \o SubSeq(s, k + 1, Len(s))

RECURSIVE SortDescFrom(_, _, _)
SortDescFrom(d, i, acc) ==
    IF i > Len(d) THEN acc ELSE SortDescFrom(d, i + 1, InsertDesc(acc, d[i]))

\* line 151 without the sort: the words in insertion order
SortedItemsUnsorted(d) == d

\* sorted(words.items(), key=lambda item: item[1], reverse=True): stable
SortedItems(d) == SortDescFrom(d, 1, <<>>)

\* line 152
NWords(a, sorted_words) ==
    IF Len(sorted_words) >= a.n_words THEN a.n_words ELSE Len(sorted_words)

\* lines 158-159 with the two totals exchanged
RowSwapped(wd, emotion, w) ==
    [word |-> w,
     occurrences |-> Get(wd.emo[emotion], w),
     occ_words |-> Ratio(Get(wd.emo[emotion], w), wd.tweets),
     occ_tweets |-> Ratio(Get(wd.emo[emotion], w), wd.words),
     emotion |-> emotion]

\* lines 155-161
Row(wd, emotion, w) ==
    [word |-> w,
     occurrences |-> Get(wd.emo[emotion], w),
     occ_words |-> Ratio(Get(wd.emo[emotion], w), wd.words),
     occ_tweets |-> Ratio(Get(wd.emo[emotion], w), wd.tweets),
     emotion |-> emotion]

\* lines 151-161: the rows of one emotion
EmotionRows(wd, a, emotion) ==
    LET words == wd.emo[emotion]
        sorted_words == [i \in 1..Len(words) |-> SortedItems(words)[i][1]]
    IN  [i \in 1..NWords(a, sorted_words) |-> Row(wd, emotion, sorted_words[i])]

RECURSIVE RowsFrom(_, _, _)
RowsFrom(wd, a, k) ==
    IF k > Len(RELEVANT_EMOTIONS) THEN <<>>
    ELSE EmotionRows(wd, a, RELEVANT_EMOTIONS[k]) \o RowsFrom(wd, a, k + 1)

\* every row the generator yields, in the order of words_dict's keys
get_first_n_words(st, wd, a) == RowsFrom(wd, a, 1)

(***************************************************************************)
(* Inputs.                                                                 *)
(***************************************************************************)
UserIds == {1, 12}

\* a record of the dump: user.id and lang; its full_text is read token by
\* token
Posts(langs) == [user_id : UserIds, lang : langs]

NoTweet == [user_id |-> 0, lang |-> None]

NoUsers == [kind |-> None, ids |-> {}]

NoFile == [exists |-> FALSE, form |-> "garbage", records |-> <<>>]

\* the users files tried
UsersFiles ==
    {NoFile,
     [exists |-> TRUE, form |-> "garbage", records |-> <<>>],
     [exists |-> TRUE, form |-> "json", records |-> <<>>],
     [exists |-> TRUE, form |-> "json", records |-> <<<<1>>>>],
     [exists |-> TRUE, form |-> "json", records |-> <<<<1>>, <<1, 2>>>>],
     [exists |-> TRUE, form |-> "json", records |-> <<<<0, 1>>>>],
     [exists |-> TRUE, form |-> "json", records |-> <<NoId>>],
     [exists |-> TRUE, form |-> "json", records |-> <<<<1>>, NoId>>],
     [exists |-> TRUE, form |-> "csv", records |-> <<>>],
     [exists |-> TRUE, form |-> "csv", records |-> <<<<1>>>>],
     [exists |-> TRUE, form |-> "csv", records |-> <<<<1>>, <<1, 2>>>>]}

(***************************************************************************)
(* What the history variables count, stated from the inputs alone.         *)
(***************************************************************************)
\* the author's id is one of the id_str of the users file
InAllowList(fs, uid) == \E i \in 1..Len(fs.records) : fs.records[i] = Str(uid)

\* the record counts: no users file configured, or its author is listed
Passes(tw) == args.users_file = None \/ InAllowList(users_fs, tw.user_id)

\* the names of the relevant emotions the lexicon gives the word
RelevantOf(lex, w) ==
    {e \in Relevant : \E t \in getEmotionsOfWord(lex, w) : getEmotionName(t) = e}

(***************************************************************************)
(* main and process_lines                                                  *)
(***************************************************************************)
\* the state main starts a run in
Fresh ==
    /\ pc = "main"
    /\ lexicon = None
    /\ tweet = NoTweet
    /\ word = None
    /\ lang = None
    /\ valid_users = NoUsers
    /\ words_dict = EmptyWordsDict
    /\ stats = EmptyStats
    /\ rows = <<>>
    /\ files = {}
    /\ report = <<>>
    /\ nread = 0
    /\ ncalls = 0
    /\ npassed = 0
    /\ ntokens = 0
    /\ nmatched = 0
    /\ nevents = 0
    /\ contrib = [w \in Tokens |-> 0]
    /\ lex_init = None

Init ==
    /\ args \in [n_words : 0..MaxNWords, users_file : {None, "users"},
                  dry_run : BOOLEAN]
    /\ users_fs \in IF args.users_file = None THEN {NoFile} ELSE UsersFiles
    /\ Fresh
    /\ run = 1
    /\ prev = [words_dict |-> EmptyWordsDict, rows |-> <<>>]

\* main, lines 194-220: --n-words is checked, the counters are created
MainStart ==
    /\ pc = "main"
    /\ IF args.n_words <= 0
       THEN pc' = "exit" /\ UNCHANGED <<words_dict, stats>>
       ELSE /\ pc' = "process_lines"
            /\ words_dict' = EmptyWordsDict
            /\ stats' = EmptyStats
    /\ UNCHANGED <<args, users_fs, lexicon, tweet, word, lang, valid_users,
                   rows, files, report, nread, ncalls, npassed, ntokens,
                   nmatched, nevents, contrib, lex_init, run, prev>>

\* process_lines, line 73 on an empty dump: next() raises StopIteration
ProcessLinesEmptyDump ==
    /\ pc = "process_lines"
    /\ pc' = "crashed"
    /\ UNCHANGED <<args, users_fs, lexicon, tweet, word, lang, valid_users,
                   words_dict, stats, rows, files, report, nread, ncalls,
                   npassed, ntokens, nmatched, nevents, contrib, lex_init,
                   run, prev>>

\* process_lines, lines 73-93 and 103-104: the first record, the users
\* file, the lexicon, and process_tweet called on the first record up to
\* its line 120
ProcessLinesFirst ==
    /\ pc = "process_lines"
    /\ \E first \in Posts(Langs) :
        LET vu == IF args.users_file # None
                  THEN get_valid_users(args, users_fs) ELSE NoUsers
        IN  /\ tweet' = first
            /\ nread' = nread + 1
            /\ valid_users' = vu
            /\ IF args.users_file # None /\ ~Truthy(vu)
               THEN /\ lang' = None
                    /\ pc' = "write"
                    /\ UNCHANGED <<lexicon, lex_init, ncalls, npassed>>
               ELSE IF initEmotionLexicon(first.lang)
               THEN /\ lexicon' = first.lang
                    /\ lex_init' = "True"
                    /\ ncalls' = ncalls + 1
                    /\ npassed' = IF Passes(first) THEN npassed + 1 ELSE npassed
                    /\ pc' = IF Filtered(first, vu, args) THEN "loop" ELSE "tweet"
                    /\ lang' = lang
               ELSE /\ lex_init' = "False"
                    /\ lang' = None
                    /\ pc' = "write"
                    /\ UNCHANGED <<lexicon, ncalls, npassed>>
    /\ UNCHANGED <<args, users_fs, word, words_dict, stats, rows, files,
                   report, ntokens, nmatched, nevents, contrib, run, prev>>

\* process_lines, lines 94-101: one more record of the dump, and
\* process_tweet called on it up to its line 120
ProcessLinesNext ==
    /\ pc = "loop"
    /\ nread < MaxPosts
    /\ \E raw_obj \in Posts({tweet.lang}) :
        /\ tweet' = raw_obj
        /\ npassed' = IF Passes(raw_obj) THEN npassed + 1 ELSE npassed
        /\ pc' = IF Filtered(raw_obj, valid_users, args) THEN "loop" ELSE "tweet"
    /\ nread' = nread + 1
    /\ ncalls' = ncalls + 1
    /\ word' = None
    /\ UNCHANGED <<args, users_fs, lexicon, lang, valid_users, words_dict,
                   stats, rows, files, report, ntokens, nmatched, nevents,
                   contrib, lex_init, run, prev>>

\* process_tweet, lines 122-136: the next token of the text
TweetWord ==
    /\ pc = "tweet"
    /\ ntokens < MaxTokens
    /\ \E raw \in RawWords :
        LET w == tokenize(raw)
            r == ProcessWord(lexicon, stats, words_dict, w)
        IN  /\ word' = w
            /\ words_dict' = r.words_dict
            /\ stats' = r.stats
            /\ contrib' = [contrib EXCEPT
                              ![w] = @ + r.words_dict.words - words_dict.words]
            /\ nmatched' = IF getEmotionsOfWord(lexicon, w) # {}
                           THEN nmatched + 1 ELSE nmatched
            /\ nevents' = nevents + Cardinality(RelevantOf(lexicon, w))
    /\ ntokens' = ntokens + 1
    /\ UNCHANGED <<pc, args, users_fs, lexicon, tweet, lang, valid_users,
                   rows, files, report, nread, ncalls, npassed, lex_init,
                   run, prev>>

\* process_tweet, lines 138-142: the text is exhausted, the record counted
TweetEnd ==
    /\ pc = "tweet"
    /\ words_dict' = [words_dict EXCEPT !.tweets = @ + 1]
    /\ stats' = [stats EXCEPT !.tweets = @ + 1]
    /\ pc' = "loop"
    /\ UNCHANGED <<args, users_fs, lexicon, tweet, word, lang, valid_users,
                   rows, files, report, nread, ncalls, npassed, ntokens,
                   nmatched, nevents, contrib, lex_init, run, prev>>

\* process_lines, line 102: the dump is exhausted, lang is returned
ProcessLinesReturn ==
    /\ pc = "loop"
    /\ lang' = lexicon
    /\ pc' = "write"
    /\ UNCHANGED <<args, users_fs, lexicon, tweet, word, valid_users,
                   words_dict, stats, rows, files, report, nread, ncalls,
                   npassed, ntokens, nmatched, nevents, contrib, lex_init,
                   run, prev>>

\* lines 239-265 without the test of line 255
OutputFilesAlways(a, l) ==
    IF a.dry_run THEN {}
    ELSE {[kind |-> "stats", lang |-> l], [kind |-> "csv", lang |-> l]}

\* lines 239-265: the files main opens under output_dir_path
OutputFiles(a, l) ==
    IF a.dry_run THEN {}
    ELSE {[kind |-> "stats", lang |-> l]}
         \cup IF l # None THEN {[kind |-> "csv", lang |-> l]} ELSE {}

\* main, lines 230-284: the ranked rows and the stats report are written
MainWrite ==
    /\ pc = "write"
    /\ rows' = get_first_n_words(stats, words_dict, args)
    /\ files' = OutputFiles(args, lang)
    /\ report' = <<[words |-> stats.words, tweets |-> stats.tweets,
                    sink |-> IF args.dry_run THEN "devnull" ELSE "file"]>>
    /\ pc' = "done"
    /\ UNCHANGED <<args, users_fs, lexicon, tweet, word, lang, valid_users,
                   words_dict, stats, nread, ncalls, npassed, ntokens,
                   nmatched, nevents, contrib, lex_init, run, prev>>

Next ==
    \/ MainStart
    \/ ProcessLinesEmptyDump
    \/ ProcessLinesFirst
    \/ ProcessLinesNext
    \/ TweetWord
    \/ TweetEnd
    \/ ProcessLinesReturn
    \/ MainWrite

Spec == Init /\ [][Next]_vars

(***************************************************************************)
(* Two runs with the same arguments: main is entered again on another      *)
(* dump, the first run's counters and rows kept for comparison.            *)
(***************************************************************************)
Rerun ==
    /\ pc = "done"
    /\ run = 1
    /\ run' = 2
    /\ prev' = [words_dict |-> words_dict, rows |-> rows]
    /\ pc' = "main"
    /\ lexicon' = None
    /\ tweet' = NoTweet
    /\ word' = None
    /\ lang' = None
    /\ valid_users' = NoUsers
    /\ words_dict' = EmptyWordsDict
    /\ stats' = EmptyStats
    /\ rows' = <<>>
    /\ files' = {}
    /\ report' = <<>>
    /\ nread' = 0
    /\ ncalls' = 0
    /\ npassed' = 0
    /\ ntokens' = 0
    /\ nmatched' = 0
    /\ nevents' = 0
    /\ contrib' = [w \in Tokens |-> 0]
    /\ lex_init' = None
    /\ UNCHANGED <<args, users_fs>>

NextPair == Next \/ Rerun

\* the two runs are compared without a users file
InitPair == Init /\ args.users_file = None

SpecPair == InitPair /\ [][NextPair]_vars

(***************************************************************************)
(* Properties.                                                             *)
(***************************************************************************)
\* words_dict[emotion][w], 0 when the word has no entry
Count(wd, e, w) == IF w \in Keys(wd.emo[e]) THEN Get(wd.emo[e], w) ELSE 0

RECURSIVE SumValues(_)
SumValues(d) == IF d = <<>> THEN 0 ELSE Head(d)[2] + SumValues(Tail(d))

RECURSIVE SumFrom(_, _)
SumFrom(wd, k) ==
    IF k > Len(RELEVANT_EMOTIONS) THEN 0
    ELSE SumValues(wd.emo[RELEVANT_EMOTIONS[k]]) + SumFrom(wd, k + 1)

\* the sum, over all emotions and words, of the per-emotion counts
SumCounts(wd) == SumFrom(wd, 1)

\* process_lines has returned, or is between two records
BetweenPosts == pc \in {"loop", "write", "done"}

\* total_posts is the number of allowed records read
C1_Counted ==
    (BetweenPosts /\ lex_init = "True") =>
        /\ words_dict.tweets = npassed
        /\ stats.tweets = npassed
        /\ args.users_file = None => words_dict.tweets = nread

\* reading a record that is not allowed changes nothing
C1_Skipped ==
    (nread' = nread + 1 /\ ~Passes(tweet')) =>
        (words_dict' = words_dict /\ stats' = stats /\ pc' # "tweet")

\* C1: once the lexicon is loaded, between records and at the end
\* total_posts (words_dict['tweets'], stats input.tweets) is the number of
\* records read whose author is in the allow-list, all records read when no
\* users file is configured; and reading a record whose author is not in
\* the allow-list changes no counter and no total and tokenizes nothing.
C1_TotalPosts == [](C1_Counted) /\ [][C1_Skipped]_vars

C1_Witness ==
    /\ pc = "done"
    /\ args.users_file # None
    /\ lex_init = "True"
    /\ nread = 2
    /\ words_dict.tweets = 1
    /\ words_dict.words > 0

\* the effect of one token on the total and on every counter
C2_Step ==
    (pc = "tweet" /\ ntokens' = ntokens + 1) =>
        LET emotions == getEmotionsOfWord(lexicon, word')
        IN  /\ emotions # {} =>
                  /\ words_dict'.words = words_dict.words + 1
                  /\ stats'.words = stats.words + 1
            /\ \A e \in Relevant, w \in Tokens :
                  Count(words_dict', e, w) =
                      Count(words_dict, e, w)
                      + IF w = word' /\ e \in RelevantOf(lexicon, word')
                        THEN 1 ELSE 0

\* C2: a token of a counted record whose emotion set is not empty adds
\* exactly 1 to total_words_matched, however many emotions it maps to, and
\* exactly 1 to its own counter under each relevant emotion of its set; the
\* counters of other words and of other emotions keep their values.
C2_TokenCounts == [][C2_Step]_vars

C2_Witness ==
    /\ pc = "tweet"
    /\ lexicon = "en"
    /\ word = "happy"
    /\ words_dict.words = 2
    /\ Count(words_dict, "joy", "happy") = 2
    /\ Count(words_dict, "positive", "happy") = 2
    /\ Count(words_dict, "trust", "happy") = 2

WordSum(wd, w) == SumValues([k \in 1..Len(RELEVANT_EMOTIONS) |->
                               <<w, Count(wd, RELEVANT_EMOTIONS[k], w)>>])

\* C4 as claimed: every word counted has a relevant emotion: for every word
\* the sum over the relevant emotions of its counts is at least the number
\* of times it was added to total_words_matched, and no entry holds 0.
C4_Original ==
    /\ \A w \in Tokens : WordSum(words_dict, w) >= contrib[w]
    /\ \A e \in Relevant : \A i \in 1..Len(words_dict.emo[e]) :
          words_dict.emo[e][i][2] > 0

\* the rows written for one emotion, in order
RowsOf(rs, e) == SelectSeq(rs, LAMBDA r : r.emotion = e)

\* C5: for every relevant emotion the rows emitted are
\* min(top_n, distinct words of the emotion) many, each a recorded word with
\* its count, no word twice, in non-increasing order of count, and no word
\* left out has a higher count than an emitted one.
C5_TopN ==
    pc = "done" =>
        /\ \A i \in 1..Len(rows) : rows[i].emotion \in Relevant
        /\ \A e \in Relevant :
            LET R == RowsOf(rows, e)
                d == words_dict.emo[e]
            IN  /\ Len(R) = IF args.n_words <= Len(d)
                            THEN args.n_words ELSE Len(d)
                /\ \A i \in 1..Len(R) :
                      /\ R[i].word \in Keys(d)
                      /\ R[i].occurrences = Get(d, R[i].word)
                /\ \A i, j \in 1..Len(R) :
                      i < j => /\ R[i].word # R[j].word
                               /\ R[i].occurrences >= R[j].occurrences
                /\ \A w \in Keys(d) \ {R[i].word : i \in 1..Len(R)} :
                      \A i \in 1..Len(R) : Get(d, w) <= R[i].occurrences

C5_Witness ==
    /\ pc = "done"
    /\ args.n_words = 1
    /\ words_dict.emo["joy"] = <<<<"glad", 1>>, <<"happy", 2>>>>
    /\ Len(RowsOf(rows, "joy")) = 1

\* the (word, count) pairs of every emotion, the order of entry forgotten
Triples(wd) ==
    [e \in Relevant |-> {wd.emo[e][i] : i \in 1..Len(wd.emo[e])}]

\* the words of the rows with their emotions, in order
RowWords(rs) == [i \in 1..Len(rs) |-> <<rs[i].emotion, rs[i].word>>]

\* C6 as claimed: two runs with the same top_n whose final counters hold
\* the same (emotion, word, count) triples emit the same words in the same
\* order.
C6_Original ==
    (run = 2 /\ pc = "done" /\ Triples(prev.words_dict) = Triples(words_dict))
        => RowWords(rows) = RowWords(prev.rows)

\* C7: rows are emitted only once aggregation is over, and each carries the
\* word's final count and its quotients by the final totals: the tokens
\* matched and the records counted over the whole dump.
C7_FinalTotals ==
    /\ rows # <<>> => pc = "done"
    /\ pc = "done" =>
          \A i \in 1..Len(rows) :
              /\ rows[i].occurrences =
                     Count(words_dict, rows[i].emotion, rows[i].word)
              /\ nmatched > 0 /\ npassed > 0
              /\ rows[i].occ_words = Ratio(rows[i].occurrences, nmatched)
              /\ rows[i].occ_tweets = Ratio(rows[i].occurrences, npassed)

C7_Witness ==
    /\ pc = "done"
    /\ nread = 2
    /\ \E i \in 1..Len(rows) :
          /\ rows[i].occurrences = 2
          /\ rows[i].occ_words = <<2, 3>>
          /\ rows[i].occ_tweets = <<1, 1>>

\* C8 as claimed: with a users file configured whose loading fails
\* (get_valid_users returns None), no record is counted and main writes no
\* output, in dry-run or not.
C8_Original ==
    (args.users_file # None /\ valid_users.kind = None
     /\ pc \in {"write", "done"}) =>
        /\ ncalls = 0
        /\ words_dict = EmptyWordsDict
        /\ files = {}

\* every record of the users file has an id_str
AllHaveId(fs) == \A i \in 1..Len(fs.records) : fs.records[i] # NoId

\* C9 as claimed: for an existing users file of either form whose records all
\* have an id_str, get_valid_users returns exactly the id_str of the
\* records, and it returns None only when neither form parses.
C9_Original ==
    (args.users_file # None /\ pc \in {"tweet", "loop", "write", "done"}
     /\ users_fs.exists /\ users_fs.form \in {"json", "csv"}
     /\ AllHaveId(users_fs)) =>
        /\ valid_users.kind # None
        /\ valid_users.ids =
              {users_fs.records[i] : i \in 1..Len(users_fs.records)}

\* C10: when initEmotionLexicon fails, process_tweet is never called, the
\* counters stay empty and the totals 0, process_lines returns None, main
\* creates no ranked-words file and emits no row, and the stats report is
\* rendered with 0 words and 0 tweets; the run does not crash.
C10_NoLexicon ==
    lex_init = "False" =>
        /\ ncalls = 0
        /\ words_dict = EmptyWordsDict
        /\ stats = EmptyStats
        /\ pc \in {"write", "done"}
        /\ lang = None
        /\ pc = "done" =>
              /\ rows = <<>>
              /\ \A f \in files : f.kind # "csv"
              /\ Len(report) = 1
              /\ report[1].words = 0
              /\ report[1].tweets = 0

C10_Witness ==
    /\ lex_init = "False"
    /\ pc = "done"
    /\ ~args.dry_run
    /\ nread = 1
    /\ files = {[kind |-> "stats", lang |-> None]}

=============================================================================
